---- MODULE Spec2Model ----
(***************************************************************************)
(* Model of the captionbot client library (package captionbot).           *)
(*                                                                         *)
(* Two revisions of the library are in the source tree and both are       *)
(* modelled: src/captionbot.go (Initialize trims quotes, UploadCaption     *)
(* uses SanitizeCaptionByteArray) and src/unnamed/part_003 (both use the   *)
(* JSON string decoder).  URLCaption, CreateCaptionTask and                *)
(* MakeValuesFromState are the same code in both revisions.  The variable  *)
(* impl says which revision the client under test is built from.           *)
(*                                                                         *)
(* One action is one call of an exported operation on one client.  The     *)
(* remote service and the file system are the environment: each action     *)
(* draws the answers to the requests the call really issues.  A Go panic   *)
(* that nothing in the library recovers ends the process.                  *)
(***************************************************************************)
EXTENDS Integers, Sequences, FiniteSets, TLC

VARIABLES impl, state, last, twice, okWaterMark

vars == <<impl, state, last, twice, okWaterMark>>

----------------------------------------------------------------------------
(* Bounds and input alphabets *)

\* longest botMessages list the mocked service answers with
MaxBotMessages == 2

Quote == "\""
Backslash == "\\"
Letter == "a"

\* the empty Go string, as a sequence of bytes
Empty == << >>

Impls == {"captionbot.go", "part_003"}

\* bodies the service answers GET init with (raw bytes): nothing, the
\* empty JSON string, a bare letter, two JSON strings, a JSON string with a
\* byte after it
InitBodies ==
  { << >>,
    <<Quote, Quote>>,
    <<Letter>>,
    <<Quote, Letter, Quote>>,
    <<Quote, Letter, Letter, Quote>>,
    <<Quote, Letter, Quote, Letter>> }

\* bodies the service answers POST upload with (raw bytes): nothing, one
\* byte, two bare letters, a JSON string, and JSON strings with an escaped
\* backslash and an escaped quote
UploadBodies ==
  { << >>,
    <<Letter>>,
    <<Letter, Letter>>,
    <<Quote, Letter, Quote>>,
    <<Quote, Backslash, Backslash, Quote>>,
    <<Quote, Backslash, Quote, Quote>> }

\* image URLs handed to URLCaption by the caller
URLs == { <<Letter>>, <<Letter, Letter>> }

\* HTTP statuses: the task submission is checked against 200..299
PostStatuses == {199, 200, 299, 300}
Statuses == {200, 500}

WaterMarks == {"", "wm-1"}
Captions == {"m0", "m1"}

\* what os.Stat / os.Open / reading make of the path given to UploadCaption
Files == {"absent", "noperm", "dir", "img"}

----------------------------------------------------------------------------
(* Results of a call *)

Ok(v) == [kind |-> "ok", val |-> v, err |-> "nil"]
Err(e) == [kind |-> "err", val |-> "", err |-> e]
\* a run-time panic (index or slice bounds out of range) leaves the call
Panic == [kind |-> "panic", val |-> "", err |-> "runtime error"]
NoResult == [kind |-> "none", val |-> "", err |-> "nil"]

----------------------------------------------------------------------------
(* Session state and requests *)

\* CaptionBotClientState of a client made with &CaptionBot{}
ZeroState == [waterMark |-> "", conversationId |-> Empty]

\* one HTTP request as the service sees it
Request(what, conv, msg, wm) ==
  [req |-> what, conversationId |-> conv, userMessage |-> msg, waterMark |-> wm]

InitRequest == Request("GET init", Empty, Empty, "")
UploadRequest == Request("POST upload", Empty, Empty, "")

\* the JSON body of the task submission, built from CaptionBotRequest
CaptionBotRequest_noWaterMark(url, st) ==
  Request("POST message", st.conversationId, url, "")
CaptionBotRequest(url, st) ==
  Request("POST message", st.conversationId, url, st.waterMark)

\* the URL-encoded query of the result GET
MakeValuesFromState_noToken(imgURL, st) ==
  Request("GET message", Empty, imgURL, st.waterMark)
MakeValuesFromState(imgURL, st) ==
  Request("GET message", st.conversationId, imgURL, st.waterMark)

----------------------------------------------------------------------------
(* Answers of the service *)

\* the inner JSON document of a result body, as json.Unmarshal sees it:
\* a syntax error, a value of the wrong type, null, or an object whose
\* missing fields read as "" and as the nil list
InnerDocs ==
  { [kind |-> k, waterMark |-> "", botMessages |-> << >>] :
      k \in {"invalid", "mismatch", "null"} }
  \cup
  { [kind |-> "object", waterMark |-> w, botMessages |-> m] :
      w \in WaterMarks,
      m \in UNION { [1..n -> Captions] : n \in 0..MaxBotMessages } }

\* a result body: a JSON string holding the inner document, or a body the
\* outer decoder rejects (not JSON, or JSON that is not a string)
ResultBodies ==
  { [outer |-> "string", text |-> d] : d \in InnerDocs }
  \cup
  { [outer |-> o, text |-> [kind |-> "invalid", waterMark |-> "", botMessages |-> << >>]] :
      o \in {"invalid", "nonstring"} }

NoResultBody ==
  [outer |-> "invalid", text |-> [kind |-> "invalid", waterMark |-> "", botMessages |-> << >>]]

\* an answer: not asked for, lost in transport, or a status with a body;
\* readErr is a body that breaks off while it is read
NotSentRaw == [sent |-> FALSE, netErr |-> FALSE, status |-> 0, readErr |-> FALSE, body |-> Empty]
NotSentResult == [sent |-> FALSE, netErr |-> FALSE, status |-> 0, readErr |-> FALSE, body |-> NoResultBody]

RawResponses(bodies) ==
  { [sent |-> TRUE, netErr |-> TRUE, status |-> 0, readErr |-> FALSE, body |-> Empty] }
  \cup
  { [sent |-> TRUE, netErr |-> FALSE, status |-> 200, readErr |-> TRUE, body |-> Empty] }
  \cup
  { [sent |-> TRUE, netErr |-> FALSE, status |-> s, readErr |-> FALSE, body |-> b] :
      s \in Statuses, b \in bodies }

InitResponses == RawResponses(InitBodies)
UploadResponses == RawResponses(UploadBodies)

PostResponses ==
  { [sent |-> TRUE, netErr |-> TRUE, status |-> 0, readErr |-> FALSE, body |-> Empty] }
  \cup
  { [sent |-> TRUE, netErr |-> FALSE, status |-> s, readErr |-> FALSE, body |-> Empty] :
      s \in PostStatuses }

GetResponses ==
  { [sent |-> TRUE, netErr |-> TRUE, status |-> 0, readErr |-> FALSE, body |-> NoResultBody] }
  \cup
  { [sent |-> TRUE, netErr |-> FALSE, status |-> s, readErr |-> FALSE, body |-> b] :
      s \in Statuses, b \in ResultBodies }

----------------------------------------------------------------------------
(* Byte-level conversions *)

RECURSIVE TrimLeft(_)
TrimLeft(s) ==
  IF s = Empty THEN s
  ELSE IF Head(s) = Quote THEN TrimLeft(Tail(s)) ELSE s

RECURSIVE TrimRight(_)
TrimRight(s) ==
  IF s = Empty THEN s
  ELSE IF s[Len(s)] = Quote THEN TrimRight(SubSeq(s, 1, Len(s) - 1)) ELSE s

\* strings.Trim(s, "\""): drops every leading and trailing double quote
Trim(s) == TrimRight(TrimLeft(s))

\* strings.Replace(s, "\\\"", "\"", -1): left to right, without overlap
RECURSIVE ReplaceEscapedQuote(_)
ReplaceEscapedQuote(s) ==
  IF Len(s) < 2 THEN s
  ELSE IF s[1] = Backslash /\ s[2] = Quote
       THEN <<Quote>> \o ReplaceEscapedQuote(SubSeq(s, 3, Len(s)))
       ELSE <<s[1]>> \o ReplaceEscapedQuote(Tail(s))

\* SanitizeCaptionByteArray: data[1 : len(data)-1] panics for len(data) < 2
SanitizeCaptionByteArray(data) ==
  IF Len(data) < 2
  THEN [panic |-> TRUE, val |-> Empty]
  ELSE [panic |-> FALSE,
        val |-> ReplaceEscapedQuote(SubSeq(data, 2, Len(data) - 1))]

\* the inside of a JSON string literal, after its opening quote: the
\* decoded bytes up to the closing quote; bytes after it are left unread
RECURSIVE ScanString(_, _)
ScanString(rest, acc) ==
  IF rest = Empty THEN [ok |-> FALSE, val |-> Empty]
  ELSE IF rest[1] = Quote THEN [ok |-> TRUE, val |-> acc]
  ELSE IF rest[1] = Backslash
       THEN IF Len(rest) >= 2 /\ rest[2] \in {Quote, Backslash}
            THEN ScanString(SubSeq(rest, 3, Len(rest)), Append(acc, rest[2]))
            ELSE [ok |-> FALSE, val |-> Empty]
       ELSE ScanString(Tail(rest), Append(acc, rest[1]))

\* json.NewDecoder(body).Decode(&s) for a string s, on a raw body
DecodeString(data) ==
  IF data = Empty THEN [ok |-> FALSE, val |-> Empty]
  ELSE IF data[1] # Quote THEN [ok |-> FALSE, val |-> Empty]
  ELSE ScanString(Tail(data), Empty)

\* json.NewDecoder(resp.Body).Decode(&response) on a result body
DecodeResponse(body) ==
  IF body.outer = "string" THEN [ok |-> TRUE, val |-> body.text]
  ELSE [ok |-> FALSE, val |-> body.text]

\* json.Unmarshal([]byte(response), &captionJSON): null leaves the zero value
Unmarshal(text) ==
  IF text.kind \in {"invalid", "mismatch"}
  THEN [ok |-> FALSE, WaterMark |-> "", BotMessages |-> << >>]
  ELSE [ok |-> TRUE, WaterMark |-> text.waterMark, BotMessages |-> text.botMessages]

----------------------------------------------------------------------------
(* The operations, as functions of the session state and of the answers *)

\* what a call leaves behind: the session state, what it returned, and the
\* requests it issued, in order
Ret(st, res, reqs) == [state |-> st, result |-> res, requests |-> reqs]

\* CreateCaptionTask: the error it returns ("nil" for none)
CreateCaptionTask_offByOne(post) ==
  IF post.netErr THEN "Transport"
  ELSE IF post.status < 200 \/ post.status > 300 THEN "Non2XX"
  ELSE "nil"
CreateCaptionTask(post) ==
  IF post.netErr THEN "Transport"
  ELSE IF post.status < 200 \/ post.status > 299 THEN "Non2XX"
  ELSE "nil"

\* Initialize of src/captionbot.go
Initialize_checksStatus(st, init) ==
  IF init.netErr THEN Ret(st, Err("Transport"), <<InitRequest>>)
  ELSE IF init.status < 200 \/ init.status > 299
       THEN Ret(st, Err("Non2XX"), <<InitRequest>>)
  ELSE IF init.readErr THEN Ret(st, Err("ReadBody"), <<InitRequest>>)
  ELSE Ret([st EXCEPT !.conversationId = Trim(init.body)], Ok(""), <<InitRequest>>)
Initialize_resetsState(st, init) ==
  IF init.netErr THEN Ret(st, Err("Transport"), <<InitRequest>>)
  ELSE IF init.readErr THEN Ret(st, Err("ReadBody"), <<InitRequest>>)
  ELSE Ret([waterMark |-> "", conversationId |-> Trim(init.body)], Ok(""),
           <<InitRequest>>)
Initialize(st, init) ==
  IF init.netErr THEN Ret(st, Err("Transport"), <<InitRequest>>)
  ELSE IF init.readErr THEN Ret(st, Err("ReadBody"), <<InitRequest>>)
  ELSE Ret([st EXCEPT !.conversationId = Trim(init.body)], Ok(""), <<InitRequest>>)

\* Initialize of src/unnamed/part_003
Initialize_part003_clearsOnError(st, init) ==
  IF init.netErr THEN Ret(st, Err("Transport"), <<InitRequest>>)
  ELSE LET decoded == DecodeString(init.body)
       IN IF init.readErr \/ ~decoded.ok
          THEN Ret([st EXCEPT !.conversationId = Empty], Err("Decode"), <<InitRequest>>)
          ELSE Ret([st EXCEPT !.conversationId = decoded.val], Ok(""), <<InitRequest>>)
Initialize_part003(st, init) ==
  IF init.netErr THEN Ret(st, Err("Transport"), <<InitRequest>>)
  ELSE LET decoded == DecodeString(init.body)
       IN IF init.readErr \/ ~decoded.ok
          THEN Ret(st, Err("Decode"), <<InitRequest>>)
          ELSE Ret([st EXCEPT !.conversationId = decoded.val], Ok(""), <<InitRequest>>)

\* the guard of URLCaption: captionBot.state.conversationId == ""
NotInitialized_never(st) == FALSE
NotInitialized(st) == st.conversationId = Empty

\* the side effect of URLCaption: state.waterMark = captionJSON.WaterMark
UpdateWaterMark_replaceState(st, captionJSON) ==
  [waterMark |-> captionJSON.WaterMark, conversationId |-> Empty]
UpdateWaterMark_merge(st, captionJSON) ==
  IF st.waterMark = "" THEN [st EXCEPT !.waterMark = captionJSON.WaterMark] ELSE st
UpdateWaterMark(st, captionJSON) ==
  [st EXCEPT !.waterMark = captionJSON.WaterMark]

\* the caption URLCaption picks: captionJSON.BotMessages[1], Go indices
\* from 0; fewer than two messages is an index out of range
PickCaption_first(captionJSON) ==
  IF Len(captionJSON.BotMessages) < 2 THEN Panic ELSE Ok(captionJSON.BotMessages[1])
PickCaption(captionJSON) ==
  IF Len(captionJSON.BotMessages) < 2 THEN Panic ELSE Ok(captionJSON.BotMessages[2])

\* URLCaption (the same code in both revisions)
URLCaption(st, url, post, get) ==
  IF NotInitialized(st)
  THEN Ret(st, Err("NotInitialized"), << >>)
  ELSE
    LET postReq == CaptionBotRequest(url, st)
        taskErr == CreateCaptionTask(post)
    IN IF taskErr # "nil"
       THEN Ret(st, Err(taskErr), <<postReq>>)
       ELSE
         LET reqs == <<postReq, MakeValuesFromState(url, st)>>
         IN IF get.netErr THEN Ret(st, Err("Transport"), reqs)
            ELSE
              LET response == DecodeResponse(get.body)
              IN IF ~response.ok THEN Ret(st, Err("Decode"), reqs)
                 ELSE
                   LET captionJSON == Unmarshal(response.val)
                   IN IF ~captionJSON.ok THEN Ret(st, Err("Decode"), reqs)
                      ELSE
                        Ret(UpdateWaterMark(st, captionJSON), PickCaption(captionJSON), reqs)

\* the local file steps of UploadCaption: os.Stat, os.Open, reading
ReadFile_errorsIgnored(file) == "nil"
ReadFile(file) ==
  CASE file = "absent" -> "NotExist"
    [] file = "noperm" -> "Open"
    [] file = "dir" -> "Read"
    [] OTHER -> "nil"

\* UploadCaption of src/captionbot.go
UploadCaption_guardFirst(st, file, upload, post, get) ==
  IF ReadFile(file) # "nil" THEN Ret(st, Err(ReadFile(file)), << >>)
  ELSE IF st.conversationId = Empty THEN Ret(st, Err("NotInitialized"), << >>)
  ELSE IF upload.netErr THEN Ret(st, Err("Transport"), <<UploadRequest>>)
  ELSE IF upload.readErr THEN Ret(st, Err("ReadBody"), <<UploadRequest>>)
  ELSE
    LET clean == SanitizeCaptionByteArray(upload.body)
    IN IF clean.panic THEN Ret(st, Panic, <<UploadRequest>>)
       ELSE LET r == URLCaption(st, clean.val, post, get)
            IN Ret(r.state, r.result, <<UploadRequest>> \o r.requests)
UploadCaption_retryUpload(st, file, upload, post, get) ==
  IF ReadFile(file) # "nil" THEN Ret(st, Err(ReadFile(file)), << >>)
  ELSE IF upload.netErr
       THEN Ret(st, Err("Transport"), <<UploadRequest, UploadRequest>>)
  ELSE IF upload.readErr THEN Ret(st, Err("ReadBody"), <<UploadRequest>>)
  ELSE
    LET clean == SanitizeCaptionByteArray(upload.body)
    IN IF clean.panic THEN Ret(st, Panic, <<UploadRequest>>)
       ELSE LET r == URLCaption(st, clean.val, post, get)
            IN Ret(r.state, r.result, <<UploadRequest>> \o r.requests)
UploadCaption(st, file, upload, post, get) ==
  IF ReadFile(file) # "nil" THEN Ret(st, Err(ReadFile(file)), << >>)
  ELSE IF upload.netErr THEN Ret(st, Err("Transport"), <<UploadRequest>>)
  ELSE IF upload.readErr THEN Ret(st, Err("ReadBody"), <<UploadRequest>>)
  ELSE
    LET clean == SanitizeCaptionByteArray(upload.body)
    IN IF clean.panic THEN Ret(st, Panic, <<UploadRequest>>)
       ELSE LET r == URLCaption(st, clean.val, post, get)
            IN Ret(r.state, r.result, <<UploadRequest>> \o r.requests)

\* UploadCaption of src/unnamed/part_003
UploadCaption_part003_retryUpload(st, file, upload, post, get) ==
  IF ReadFile(file) # "nil" THEN Ret(st, Err(ReadFile(file)), << >>)
  ELSE IF upload.netErr
       THEN Ret(st, Err("Transport"), <<UploadRequest, UploadRequest>>)
  ELSE
    LET body == DecodeString(upload.body)
    IN IF upload.readErr \/ ~body.ok THEN Ret(st, Err("Decode"), <<UploadRequest>>)
       ELSE LET r == URLCaption(st, body.val, post, get)
            IN Ret(r.state, r.result, <<UploadRequest>> \o r.requests)
UploadCaption_part003(st, file, upload, post, get) ==
  IF ReadFile(file) # "nil" THEN Ret(st, Err(ReadFile(file)), << >>)
  ELSE IF upload.netErr THEN Ret(st, Err("Transport"), <<UploadRequest>>)
  ELSE
    LET body == DecodeString(upload.body)
    IN IF upload.readErr \/ ~body.ok THEN Ret(st, Err("Decode"), <<UploadRequest>>)
       ELSE LET r == URLCaption(st, body.val, post, get)
            IN Ret(r.state, r.result, <<UploadRequest>> \o r.requests)

\* the revision the client is built from selects the code that runs
InitializeOf(i, st, init) ==
  IF i = "captionbot.go" THEN Initialize(st, init) ELSE Initialize_part003(st, init)

UploadCaptionOf(i, st, file, upload, post, get) ==
  IF i = "captionbot.go"
  THEN UploadCaption(st, file, upload, post, get)
  ELSE UploadCaption_part003(st, file, upload, post, get)

----------------------------------------------------------------------------
(* The environment: which requests of a call are answered *)

NotSentPost == [sent |-> FALSE, netErr |-> FALSE, status |-> 0, readErr |-> FALSE, body |-> Empty]

\* the answer as the record of the call keeps it; the status is kept for
\* the task submission only, the one place where the code reads it
Seen(r) == [r EXCEPT !.status = 0]

IsSent(reqs, what) == \E k \in 1..Len(reqs) : reqs[k].req = what

\* answers to draw for a request that is issued only if the call gets there
AnswersIf(reached, answers, none) == IF reached THEN answers ELSE {none}

\* the record of the latest call on the client
Call(op, pre, url, file, init, upload, post, get, r) ==
  [op |-> op, pre |-> pre, url |-> url, file |-> file,
   init |-> Seen(init), upload |-> Seen(upload), post |-> post, get |-> Seen(get),
   requests |-> r.requests, result |-> r.result]

NoCall ==
  Call("none", ZeroState, Empty, "none", NotSentRaw, NotSentRaw, NotSentPost,
       NotSentResult, Ret(ZeroState, NoResult, << >>))

\* the first of two URLCaption calls in a row with the same URL and the
\* same answers: what it returned and the waterMark it left
NotTwice == [same |-> FALSE, first |-> NoResult, firstWM |-> ""]

\* a task submission that is accepted and a result that arrives
Answered(post, get) ==
  /\ post.sent /\ CreateCaptionTask(post) = "nil"
  /\ get.sent /\ ~get.netErr

\* a result body that is a double-encoded object with a caption in it
WellFormed(body) ==
  /\ body.outer = "string"
  /\ body.text.kind = "object"
  /\ Len(body.text.botMessages) >= 2

Alive == last.result.kind # "panic"

\* the waterMark of the latest caption response that a call returned a
\* caption from: it moves when a caption call succeeds, and only then
AnsweredWaterMark(old, get, r) ==
  IF r.result.kind = "ok" THEN get.body.text.waterMark ELSE old

----------------------------------------------------------------------------
(* Actions: one call of an exported operation *)

Init ==
  /\ impl \in Impls
  /\ state = ZeroState
  /\ last = NoCall
  /\ twice = NotTwice
  /\ okWaterMark = ""

DoInitialize(op) ==
  \E init \in InitResponses :
    LET r == InitializeOf(impl, state, init)
    IN /\ state' = r.state
       /\ last' = Call(op, state, Empty, "none", init, NotSentRaw, NotSentPost,
                       NotSentResult, r)
       /\ twice' = NotTwice
       /\ UNCHANGED <<impl, okWaterMark>>

\* New(): a fresh client, initialized
NewAction ==
  /\ last.op = "none"
  /\ DoInitialize("New")

InitializeAction ==
  /\ Alive
  /\ DoInitialize("Initialize")

URLCaptionAction ==
  /\ Alive
  /\ \E url \in URLs :
     \E post \in AnswersIf(state.conversationId # Empty, PostResponses, NotSentPost) :
     \E get \in AnswersIf(post.sent /\ CreateCaptionTask(post) = "nil",
                          GetResponses, NotSentResult) :
       LET r == URLCaption(state, url, post, get)
       IN /\ state' = r.state
          /\ last' = Call("URLCaption", state, url, "none", NotSentRaw, NotSentRaw,
                          post, get, r)
          /\ twice' =
               IF /\ last.op = "URLCaption" /\ last.url = url
                  /\ Answered(last.post, last.get) /\ Answered(post, get)
                  /\ WellFormed(get.body) /\ last.get.body = get.body
               THEN [same |-> TRUE, first |-> last.result, firstWM |-> state.waterMark]
               ELSE NotTwice
          /\ okWaterMark' = AnsweredWaterMark(okWaterMark, get, r)
          /\ UNCHANGED impl

UploadCaptionAction ==
  /\ Alive
  /\ \E file \in Files :
     \E upload \in AnswersIf(ReadFile(file) = "nil", UploadResponses, NotSentRaw) :
       LET reached ==
             /\ upload.sent
             /\ Len(UploadCaptionOf(impl, [state EXCEPT !.conversationId = Empty],
                                    file, upload, NotSentPost, NotSentResult).requests) = 1
             /\ UploadCaptionOf(impl, [state EXCEPT !.conversationId = Empty],
                                file, upload, NotSentPost, NotSentResult).result.err
                  = "NotInitialized"
       IN
       \E post \in AnswersIf(reached /\ state.conversationId # Empty,
                             PostResponses, NotSentPost) :
       \E get \in AnswersIf(post.sent /\ CreateCaptionTask(post) = "nil",
                            GetResponses, NotSentResult) :
         LET r == UploadCaptionOf(impl, state, file, upload, post, get)
         IN /\ state' = r.state
            /\ last' = Call("UploadCaption", state, Empty, file, NotSentRaw, upload,
                            post, get, r)
            /\ twice' = NotTwice
            /\ okWaterMark' = AnsweredWaterMark(okWaterMark, get, r)
            /\ UNCHANGED impl

Next ==
  \/ NewAction
  \/ InitializeAction
  \/ URLCaptionAction
  \/ UploadCaptionAction

Spec == Init /\ [][Next]_vars

----------------------------------------------------------------------------
(* Properties *)

IsURLCaption == last.op = "URLCaption"
IsUploadCaption == last.op = "UploadCaption"
IsInitialize == last.op \in {"Initialize", "New"}

\* C1: URLCaption on a client whose conversation token is empty returns the
\* not-initialized error, issues no request (no task-submission POST, no
\* result GET) and leaves the session state as it was.
C1_NotInitializedNoNetwork ==
  (IsURLCaption /\ last.pre.conversationId = Empty) =>
    /\ last.result = Err("NotInitialized")
    /\ last.requests = << >>
    /\ state = last.pre

C1_Witness ==
  /\ IsURLCaption
  /\ last.pre.conversationId = Empty
  /\ last.result.kind = "err"

\* C2: on a Ready client, with the task submission accepted (2xx) and a
\* result body that is a double-encoded object with at least two
\* botMessages, URLCaption returns the second botMessage and the session
\* waterMark afterwards is the response's waterMark.
C2_SecondBotMessage ==
  (/\ IsURLCaption
   /\ last.pre.conversationId # Empty
   /\ Answered(last.post, last.get)
   /\ WellFormed(last.get.body)) =>
    /\ last.result = Ok(last.get.body.text.botMessages[2])
    /\ state.waterMark = last.get.body.text.waterMark
    /\ state.conversationId = last.pre.conversationId

C2_Witness ==
  /\ IsURLCaption
  /\ Answered(last.post, last.get)
  /\ WellFormed(last.get.body)
  /\ last.get.body.text.botMessages[1] # last.get.body.text.botMessages[2]
  /\ last.get.body.text.waterMark # last.pre.waterMark
  /\ last.result.kind = "ok"

\* C3: when the task-submission POST is answered with a status outside
\* 200..299, URLCaption fails with the task-submission error and the
\* result GET is not issued in that call.
C3_Non2XXStopsBeforeGet ==
  (/\ IsURLCaption
   /\ last.post.sent /\ ~last.post.netErr
   /\ (last.post.status < 200 \/ last.post.status > 299)) =>
    /\ last.result = Err("Non2XX")
    /\ ~IsSent(last.requests, "GET message")
    /\ Len(last.requests) = 1

C3_Witness ==
  /\ IsURLCaption
  /\ last.post.sent /\ ~last.post.netErr
  /\ last.post.status = 300
  /\ last.result.kind = "err"

\* C4: when the decoded result object has a botMessages list of length 0 or
\* 1 (a missing field included), URLCaption returns an error value to the
\* caller.
C4_TooFewBotMessagesIsError ==
  (/\ IsURLCaption
   /\ Answered(last.post, last.get)
   /\ last.get.body.outer = "string"
   /\ last.get.body.text.kind = "object"
   /\ Len(last.get.body.text.botMessages) < 2) =>
    last.result.kind = "err"

\* C5: a call of Initialize, URLCaption or UploadCaption that does not
\* complete successfully leaves conversation token and waterMark as they
\* were before the call.
C5_FailureLeavesState ==
  (last.op # "none" /\ last.result.kind # "ok") => state = last.pre

\* C6: no operation panics: every call returns a result or an error value.
C6_NeverPanics == last.result.kind \in {"none", "ok", "err"}

\* C7: UploadCaption with a path to a file that does not exist fails with
\* the file-not-found error and issues no request at all.
C7_MissingFileNoNetwork ==
  (IsUploadCaption /\ last.file = "absent") =>
    /\ last.result = Err("NotExist")
    /\ last.requests = << >>
    /\ state = last.pre

C7_Witness ==
  /\ IsUploadCaption
  /\ last.file = "absent"
  /\ last.result.kind = "err"
  /\ last.pre.conversationId # Empty

\* a raw body that is exactly one JSON string literal: it decodes, and the
\* closing quote is its last byte
IsJSONString(data) ==
  /\ DecodeString(data).ok
  /\ \A k \in 0..(Len(data) - 1) : ~DecodeString(SubSeq(data, 1, k)).ok

\* C8: Initialize fails with a transport error when the GET fails, fails
\* with a decode error when the body is not a valid JSON string, and stores
\* a token and reports success only when the body is a valid JSON string.
C8_InitializeDecodes ==
  IsInitialize =>
    /\ last.init.netErr => last.result = Err("Transport")
    /\ (~last.init.netErr /\ ~last.init.readErr /\ ~IsJSONString(last.init.body))
         => last.result = Err("Decode")
    /\ last.result.kind = "ok" =>
         /\ IsJSONString(last.init.body)
         /\ state.conversationId = DecodeString(last.init.body).val

\* C9: two URLCaption calls in a row with the same URL, answered with the
\* same well-formed response, return the same caption, and after each of
\* them the waterMark is that response's waterMark.
C9_SameCaptionTwice ==
  twice.same =>
    /\ last.result.kind = "ok"
    /\ last.result = twice.first
    /\ twice.firstWM = last.get.body.text.waterMark
    /\ state.waterMark = last.get.body.text.waterMark

C9_Witness ==
  /\ twice.same
  /\ IsURLCaption
  /\ last.get.body.text.waterMark # ""
  /\ last.result.kind = "ok"

\* C10: after an upload whose response body decodes as a JSON string,
\* UploadCaption does what URLCaption does on the same session state with
\* the decoded string as image locator: same requests after the upload,
\* same result, same session state afterwards.
C10_UploadIsURLCaptionOfDecodedBody ==
  (/\ IsUploadCaption
   /\ last.upload.sent /\ ~last.upload.netErr /\ ~last.upload.readErr
   /\ DecodeString(last.upload.body).ok) =>
    LET r == URLCaption(last.pre, DecodeString(last.upload.body).val,
                        last.post, last.get)
    IN /\ last.result = r.result
       /\ state = r.state
       /\ last.requests = <<UploadRequest>> \o r.requests

IsCaptionCall == last.op \in {"URLCaption", "UploadCaption"}

\* a request to the message endpoint: task-submission POST or result GET
IsCaptionRequest(r) == r.req \in {"POST message", "GET message"}

\* C11: when the upload POST of UploadCaption fails in transport, the
\* failure is returned at once: the upload is sent once, and neither the
\* task-submission POST nor the result GET is issued in that call.
C11_UploadFailureNotRetried ==
  (IsUploadCaption /\ last.upload.sent /\ last.upload.netErr) =>
    /\ last.result = Err("Transport")
    /\ last.requests = <<UploadRequest>>
    /\ state = last.pre

C11_Witness ==
  /\ IsUploadCaption
  /\ last.upload.sent /\ last.upload.netErr
  /\ last.pre.conversationId # Empty
  /\ last.result.kind = "err"

\* C12: every request a call sends to the message endpoint (task-submission
\* POST or result GET) carries a conversation token that is not empty.
C12_CaptionRequestsCarryToken ==
  \A k \in 1..Len(last.requests) :
    IsCaptionRequest(last.requests[k]) =>
      /\ last.requests[k].conversationId # Empty
      /\ last.requests[k].conversationId = last.pre.conversationId

C12_Witness ==
  /\ IsCaptionCall
  /\ IsSent(last.requests, "POST message")
  /\ IsSent(last.requests, "GET message")
  /\ \A k \in 1..Len(last.requests) :
       IsCaptionRequest(last.requests[k]) => last.requests[k].conversationId # Empty

CanStillSucceed ==
  \A url \in URLs : \A post \in PostResponses : \A get \in GetResponses :
    (Answered(post, get) /\ WellFormed(get.body)) =>
      URLCaption(state, url, post, get).result.kind = "ok"

\* C14: a caption call (URLCaption or UploadCaption), whether it succeeds
\* or fails, leaves the conversation token as it was, so a Ready client
\* stays Ready; and after a caption call that returned an error a following
\* caption call still succeeds when the service answers well.
C14_CaptionCallsKeepReady ==
  /\ [][ last'.op \in {"URLCaption", "UploadCaption"} =>
           state'.conversationId = state.conversationId ]_vars
  /\ []( (IsCaptionCall /\ last.pre.conversationId # Empty /\ last.result.kind = "err")
           => (state = last.pre /\ CanStillSucceed) )

C14_Witness ==
  /\ IsCaptionCall
  /\ last.result.kind = "err"
  /\ IsSent(last.requests, "POST message")
  /\ state.conversationId # Empty
  /\ state.waterMark # ""

\* C15 as stated: once the conversation token is not empty its value never
\* changes again, a second Initialize included.
C15_TokenNeverChanges ==
  [][ state.conversationId # Empty =>
        state'.conversationId = state.conversationId ]_vars

\* C15, amended: the conversation token changes only in an Initialize (or
\* New) call that returns nil; caption calls and failed Initialize calls
\* leave it as it was.
C15_TokenChangesOnlyInInitialize ==
  [][ state'.conversationId # state.conversationId =>
        (last'.op \in {"Initialize", "New"} /\ last'.result.kind = "ok") ]_vars

C15_Witness ==
  /\ last.op = "Initialize"
  /\ last.result.kind = "ok"
  /\ IsJSONString(last.init.body)
  /\ last.pre.conversationId # Empty
  /\ state.conversationId # Empty
  /\ state.conversationId # last.pre.conversationId

\* the endpoints a call contacted, in order
Endpoints(reqs) == [k \in 1..Len(reqs) |-> reqs[k].req]

\* C16: within one call each endpoint is contacted at most once and in a
\* fixed order (upload POST, task-submission POST, result GET; the GET only
\* after the POST was accepted), and the first failed request is the last
\* request of the call.
C16_EachEndpointOnceInOrder ==
  /\ IsInitialize => Endpoints(last.requests) = <<"GET init">>
  /\ IsURLCaption =>
       Endpoints(last.requests) \in
         { << >>, <<"POST message">>, <<"POST message", "GET message">> }
  /\ IsUploadCaption =>
       Endpoints(last.requests) \in
         { << >>, <<"POST upload">>, <<"POST upload", "POST message">>,
           <<"POST upload", "POST message", "GET message">> }
  /\ (last.upload.sent /\ last.upload.netErr) =>
       (last.result.kind = "err" /\ Endpoints(last.requests) = <<"POST upload">>)
  /\ (last.post.sent /\ (last.post.netErr \/ last.post.status < 200 \/ last.post.status > 299)) =>
       (last.result.kind = "err" /\ ~IsSent(last.requests, "GET message"))
  /\ IsSent(last.requests, "GET message") =>
       (last.post.sent /\ ~last.post.netErr /\ last.get.sent)
  /\ (last.get.sent /\ last.get.netErr) => last.result = Err("Transport")

C16_Witness ==
  /\ IsUploadCaption
  /\ Endpoints(last.requests) = <<"POST upload", "POST message", "GET message">>
  /\ last.get.netErr

\* C17: whenever Initialize (or New) returns nil, the conversation token is
\* not empty afterwards, so a following URLCaption passes the
\* not-initialized guard.
C17_NilMeansReady ==
  (IsInitialize /\ last.result.kind = "ok") =>
    /\ state.conversationId # Empty
    /\ ~NotInitialized(state)

\* C18 as stated: UploadCaption on a client with an empty token and a
\* readable file issues the upload POST and then fails with the
\* not-initialized error, with no message request and the state unchanged.
C18_UploadThenNotInitialized ==
  (IsUploadCaption /\ last.pre.conversationId = Empty /\ last.file = "img") =>
    /\ last.result = Err("NotInitialized")
    /\ last.requests = <<UploadRequest>>
    /\ state = last.pre

\* C18, amended: UploadCaption on a client with an empty token and a
\* readable file issues the upload POST and nothing else, never returns a
\* caption, and leaves the state unchanged; when the upload is answered
\* with a JSON string body, the call fails with the not-initialized error.
C18_UploadFirstThenGuard ==
  (IsUploadCaption /\ last.pre.conversationId = Empty /\ last.file = "img") =>
    /\ last.requests = <<UploadRequest>>
    /\ state = last.pre
    /\ last.result.kind # "ok"
    /\ (/\ ~last.upload.netErr /\ ~last.upload.readErr
        /\ IsJSONString(last.upload.body)) =>
         last.result = Err("NotInitialized")

C18_Witness ==
  /\ IsUploadCaption
  /\ last.pre.conversationId = Empty
  /\ last.file = "img"
  /\ IsJSONString(last.upload.body)
  /\ last.result = Err("NotInitialized")

\* an answer as it would have been with another HTTP status
WithStatus(r, s) == IF r.sent /\ ~r.netErr THEN [r EXCEPT !.status = s] ELSE r

\* C19: the HTTP status of the init GET, of the result GET and of the
\* upload POST has no influence: with any other status in these answers,
\* and everything else the same, the call returns the same result, leaves
\* the same session state and sends the same requests.
C19_OtherStatusesHaveNoInfluence ==
  \A s1 \in Statuses : \A s2 \in Statuses :
    LET r == CASE IsInitialize ->
                    InitializeOf(impl, last.pre, WithStatus(last.init, s1))
               [] IsURLCaption ->
                    URLCaption(last.pre, last.url, last.post, WithStatus(last.get, s1))
               [] IsUploadCaption ->
                    UploadCaptionOf(impl, last.pre, last.file,
                                    WithStatus(last.upload, s1), last.post,
                                    WithStatus(last.get, s2))
               [] OTHER -> Ret(state, last.result, last.requests)
    IN /\ r.result = last.result
       /\ r.state = state
       /\ r.requests = last.requests

C19_Witness ==
  /\ IsUploadCaption
  /\ last.upload.sent /\ ~last.upload.netErr
  /\ last.get.sent /\ ~last.get.netErr
  /\ last.result.kind = "ok"
  /\ state.waterMark # last.pre.waterMark

\* C20: Initialize never changes waterMark; a caption call that follows an
\* Initialize sends, with the token Initialize left, the waterMark the
\* client had before that Initialize.
C20_InitializeKeepsWaterMark ==
  [][ /\ last'.op \in {"Initialize", "New"} => state'.waterMark = state.waterMark
      /\ (IsInitialize /\ last'.op \in {"URLCaption", "UploadCaption"}) =>
           \A k \in 1..Len(last'.requests) :
             IsCaptionRequest(last'.requests[k]) =>
               /\ last'.requests[k].waterMark = last.pre.waterMark
               /\ last'.requests[k].conversationId = state.conversationId ]_vars

C20_Witness ==
  /\ last.op = "Initialize"
  /\ last.result.kind = "ok"
  /\ last.pre.waterMark # ""
  /\ state.waterMark = last.pre.waterMark
  /\ state.conversationId # Empty
  /\ state.conversationId # last.pre.conversationId

====
